---- MODULE Spec2Model ----
(***************************************************************************)
(* PECOS: lowering of SLR program trees to PHIR op records                 *)
(* (pecos.slr.gen_codes.gen_phir and pecos.slr.generators.phir) and the    *)
(* operation classification of GeneralNoiseModel.process, its init() and   *)
(* shots, the shot loop of HybridEngine.run over an op-stream, and         *)
(* RegSlice of pecos.slr.vars.                                             *)
(***************************************************************************)
EXTENDS Integers, Sequences, FiniteSets, TLC

\* ------------------------------------------------------------------------
\* Bounds of the model
\* ------------------------------------------------------------------------
MaxBody == 2        \* statements in the body of the compiled (root) block
MaxRepeat == 3      \* largest Repeat count
MaxVars == 2        \* variables in the vars of a Main block
MaxOps == 2         \* operations in the list handed to GeneralNoiseModel.process
MaxInits == 3       \* calls of GeneralNoiseModel.init on one model
MaxShots == 2       \* shots run on one model
MaxEngineShots == 2 \* largest argument shots of HybridEngine.run
MaxSize == 3        \* largest register a RegSlice is taken of
MaxList == 2        \* indices in the list a RegSlice is built from

\* ------------------------------------------------------------------------
\* Program tree (SLR)
\* ------------------------------------------------------------------------
\* A register element (Qubit / Bit): reg is the symbol of its register.
Elem(reg, idx) == [reg |-> reg, index |-> idx]

\* A register (QReg / CReg).
Reg(type, sym, size) == [type |-> type, sym |-> sym, size |-> size]

\* Classical expressions (pecos.slr.cops): an int literal, a register
\* element, a register, a unary operation (symbol, value), a binary operation
\* (symbol, left, right) and the assignment SET (left = right). type is the
\* name of the class.
IntExpr(n) == [type |-> "int", value |-> n]
UnaryOp(type, symbol, value) == [type |-> type, symbol |-> symbol, value |-> value]
BinaryOp(type, symbol, left, right) == [type |-> type, symbol |-> symbol, left |-> left, right |-> right]
NOT(value) == UnaryOp("NOT", "~", value)
AND(left, right) == BinaryOp("AND", "&", left, right)
OR(left, right) == BinaryOp("OR", "|", left, right)
SET(left, right) == BinaryOp("SET", "=", left, right)
EQUIV(reg, idx, n) == BinaryOp("EQUIV", "==", Elem(reg, idx), IntExpr(n))

\* Statements are records of one shape; the fields a statement type does
\* not have hold the empty value.
Stmt(type, sym, qsize, qargs, cond, ops, else_block, vs) ==
    [type |-> type, sym |-> sym, qsize |-> qsize, qargs |-> qargs, cond |-> cond,
     ops |-> ops, else_block |-> else_block, vars |-> vs]

QGate(sym, qsize, qargs) == Stmt("QGate", sym, qsize, qargs, IntExpr(0), <<>>, <<>>, <<>>)
If(cond, ops) == Stmt("If", "", 0, <<>>, cond, ops, <<>>, <<>>)
IfElse(cond, ops, else_ops) == Stmt("If", "", 0, <<>>, cond, ops, else_ops, <<>>)
Repeat(n, ops) == Stmt("Repeat", "", 0, <<>>, IntExpr(n), ops, <<>>, <<>>)
Block(ops) == Stmt("Block", "", 0, <<>>, IntExpr(0), ops, <<>>, <<>>)
Main(vs, ops) == Stmt("Main", "", 0, <<>>, IntExpr(0), ops, <<>>, vs)
Vars(vs) == Stmt("Vars", "", 0, <<>>, IntExpr(0), <<>>, <<>>, vs)

\* Barrier(*qregs)
Barrier(qregs) == [type |-> "Barrier", qregs |-> qregs]
\* Measure(*qargs) > cout
MeasureTo(qargs, cout) ==
    [type |-> "QGate", sym |-> "Measure", qsize |-> 1, qargs |-> qargs, cout |-> cout]
\* an argument that is a tuple of qubits
Tuple(qs) == [tuple |-> qs]

\* hasattr(op, "ops")
HasOps(op) == op.type \in {"If", "Repeat", "Block", "Main"}
\* hasattr(op, "is_qgate") and op.is_qgate
IsQGate(op) == op.type = "QGate"

\* ------------------------------------------------------------------------
\* State
\* ------------------------------------------------------------------------
VARIABLES
    impl,           \* which PHIRGenerator: "gen_codes" (gen_phir.py) or "generators" (generators/phir)
    prog,           \* the block handed to generate_block
    output,         \* self.output["ops"] of the generator
    current_scope,  \* self.current_scope
    pc,             \* position inside generate_block
    vi,             \* loop index of the running for-loop of enter_block / generate_block
    err,            \* the exception generate_block raised, "" if none
    run,            \* how many times prog has been compiled
    first_ops,      \* the ops get_output() held after the first compilation
    eparams,        \* GeneralNoiseModel: self._eparams
    leaked_qubits,  \* GeneralNoiseModel: self.leaked_qubits
    qops,           \* process: the argument qops
    qi,             \* process: position of the loop  for op in qops
    noisy_ops,      \* process: the local list noisy_ops
    branches,       \* process: the case of the match statement each op has taken
    npc,            \* process: "off", "loop", "returned" or "raised"
    returned,       \* process: the list it returned
    error_params,   \* GeneralNoiseModel: self.error_params, the caller's dictionary
    rates,          \* GeneralNoiseModel: the numeric entries of self._eparams
    inits,          \* how many times init() has been called
    reset_leakage,  \* the argument reset_leakage of the last call of init()
    shot,           \* the shot that is running, 0 before the first
    added,          \* the qubits leak() has put into leaked_qubits during the shot
    nerr,           \* the exception init() or process() raised, "" if none
    draws,          \* process: what the fault functions returned for each op, and its place in noisy_ops
    phir,           \* HybridEngine.run: the op-stream it interprets
    shots,          \* HybridEngine.run: the argument shots
    estate,         \* the engine: "off", "Ready", "Running", "Done" or "Finished"
    eshot,          \* the shot the engine is in, 0 before the first
    todo,           \* the ops of the running shot that are still to be executed
    cenv,           \* the classical register store: register name -> value
    sim,            \* the backend: qubit id -> "0", "1", "+" or "-"
    results,        \* the accumulator: register name -> outcome strings
    written,        \* the bits an op of the running shot has assigned
    reg_size,       \* RegSlice: self.reg.size
    indices,        \* RegSlice: self.indices
    spc,            \* "off", "new", "built", "raised", "iterated" or "added"
    serr,           \* the exception RegSlice.__init__ raised, "" if none
    iterated,       \* list(s): the elements yielded and the exception raised
    other,          \* __add__: the right operand
    combined,       \* __add__: the exception raised or the slice returned
    items           \* s[0], ..., s[len(s) - 1]: the exception raised or the element returned

gen_vars == <<impl, prog, output, current_scope, pc, vi, err, run, first_ops>>
noise_vars ==
    <<eparams, leaked_qubits, qops, qi, noisy_ops, branches, npc, returned,
      error_params, rates, inits, reset_leakage, shot, added, nerr, draws>>
engine_vars == <<phir, shots, estate, eshot, todo, cenv, sim, results, written>>
slice_vars == <<reg_size, indices, spc, serr, iterated, other, combined, items>>
other_vars == <<engine_vars, slice_vars>>

\* ------------------------------------------------------------------------
\* Op encoder (pure functions); a result is [err, ops]: the exception
\* raised, or the records produced
\* ------------------------------------------------------------------------
Ok(ops) == [err |-> "", ops |-> ops]
Raise(e) == [err |-> e, ops |-> <<>>]

\* r1 evaluated before r2, the first exception wins
AndThen(r1, r2) ==
    IF r1.err # "" THEN r1
    ELSE IF r2.err # "" THEN r2
    ELSE Ok(r1.ops \o r2.ops)

RECURSIVE Copies(_, _)
Copies(n, s) == IF n <= 0 THEN <<>> ELSE s \o Copies(n - 1, s)

\* [register_symbol, index]
Id(sym, idx) == [reg |-> sym, index |-> idx]

\* _qubit_to_id / IdFormatter.qubit_to_id
QubitToId(q) == IF "reg" \in DOMAIN q THEN Id(q.reg, q.index) ELSE Id(q.sym, 0)

\* process_var_def
ProcessVarDef(var) ==
    IF var.size <= 0 THEN Raise("TypeError: Register size must be positive")
    ELSE IF var.type = "QReg"
        THEN Ok(<<[data |-> "qvar_define", data_type |-> "qubits", variable |-> var.sym, size |-> var.size]>>)
    ELSE IF var.type = "CReg"
        THEN Ok(<<[data |-> "cvar_define", data_type |-> "i64", variable |-> var.sym, size |-> var.size]>>)
    ELSE Raise("TypeError: Unsupported variable type")

\* _bit_to_id / IdFormatter.bit_to_id
BitToId(b) == IF "reg" \in DOMAIN b THEN Id(b.reg, b.index) ELSE Id(b.sym, 0)

\* isinstance(expr, int)
IsInt(expr) == "type" \in DOMAIN expr /\ expr.type = "int"

\* ProcessClassicalExpr with a binary operation whose left operand is an
\* operation of the same class lowered to one record over all the operands
RECURSIVE ProcessClassicalExprFlat(_)
ProcessClassicalExprFlat(expr) ==
    IF IsInt(expr) THEN Ok(<<expr.value>>)
    ELSE IF {"reg", "index"} \subseteq DOMAIN expr THEN Ok(<<Id(expr.reg, expr.index)>>)
    ELSE IF "sym" \in DOMAIN expr THEN Ok(<<expr.sym>>)
    ELSE IF "symbol" \in DOMAIN expr
        THEN IF expr.type = "SET"
                THEN LET right == ProcessClassicalExprFlat(expr.right)
                         left == ProcessClassicalExprFlat(expr.left)
                     IN  IF right.err # "" THEN right
                         ELSE IF left.err # "" THEN left
                         ELSE Ok(<<[cop |-> "=", args |-> right.ops, returns |-> left.ops]>>)
             ELSE IF "value" \in DOMAIN expr
                THEN LET value == ProcessClassicalExprFlat(expr.value)
                     IN  IF value.err # "" THEN value
                         ELSE Ok(<<[cop |-> expr.symbol, args |-> value.ops]>>)
             ELSE LET left == ProcessClassicalExprFlat(expr.left)
                      right == ProcessClassicalExprFlat(expr.right)
                  IN  IF left.err # "" THEN left
                      ELSE IF right.err # "" THEN right
                      ELSE IF "left" \in DOMAIN expr.left /\ expr.left.type = expr.type
                          THEN Ok(<<[cop |-> expr.symbol, args |-> left.ops[1].args \o right.ops]>>)
                      ELSE Ok(<<[cop |-> expr.symbol, args |-> left.ops \o right.ops]>>)
    ELSE Raise("TypeError: Unsupported classical expression")

\* _process_classical_expr and _process_operation_expr /
\* ClassicalExprHandler._process_expr; the value is returned as the single
\* element of ops
RECURSIVE ProcessClassicalExpr(_)
ProcessClassicalExpr(expr) ==
    IF IsInt(expr) THEN Ok(<<expr.value>>)
    ELSE IF {"reg", "index"} \subseteq DOMAIN expr THEN Ok(<<Id(expr.reg, expr.index)>>)
    ELSE IF "sym" \in DOMAIN expr THEN Ok(<<expr.sym>>)
    ELSE IF "symbol" \in DOMAIN expr
        THEN IF expr.type = "SET"
                THEN LET right == ProcessClassicalExpr(expr.right)
                         left == ProcessClassicalExpr(expr.left)
                     IN  IF right.err # "" THEN right
                         ELSE IF left.err # "" THEN left
                         ELSE Ok(<<[cop |-> "=", args |-> right.ops, returns |-> left.ops]>>)
             ELSE IF "value" \in DOMAIN expr
                THEN LET value == ProcessClassicalExpr(expr.value)
                     IN  IF value.err # "" THEN value
                         ELSE Ok(<<[cop |-> expr.symbol, args |-> value.ops]>>)
             ELSE LET left == ProcessClassicalExpr(expr.left)
                      right == ProcessClassicalExpr(expr.right)
                  IN  IF left.err # "" THEN left
                      ELSE IF right.err # "" THEN right
                      ELSE Ok(<<[cop |-> expr.symbol, args |-> left.ops \o right.ops]>>)
    ELSE Raise("TypeError: Unsupported classical expression")

\* the ids of the arguments of a single-qubit gate that have a register
\* (hasattr(q, "reg"))
SqArgs(op) ==
    LET qs == SelectSeq(op.qargs, LAMBDA q : "reg" \in DOMAIN q)
    IN  [i \in 1..Len(qs) |-> QubitToId(qs[i])]

\* _process_sq_gate / SingleQubitGateHandler.handle
ProcessSqGate(op) ==
    IF op.sym = "Measure" /\ "cout" \in DOMAIN op
        THEN Ok(<<[qop |-> op.sym, args |-> SqArgs(op),
                   returns |-> [i \in 1..Len(op.cout) |-> BitToId(op.cout[i])]]>>)
    ELSE Ok(<<[qop |-> op.sym, args |-> SqArgs(op)]>>)

\* a 2-tuple of qubit ids
TwoIds(q1, q2) == [q1 |-> QubitToId(q1), q2 |-> QubitToId(q2)]

\* _process_tq_gate / TwoQubitGateHandler.handle; a tuple argument is a
\* record with the field `tuple`
ProcessTqGate(op) ==
    IF Len(op.qargs) = 0 THEN Raise("IndexError")
    ELSE IF "tuple" \notin DOMAIN op.qargs[1]
        THEN IF Len(op.qargs) < 2 THEN Raise("IndexError")
             ELSE IF {"reg", "sym"} \cap DOMAIN op.qargs[2] = {} THEN Raise("AttributeError: sym")
             ELSE Ok(<<[qop |-> op.sym, args |-> <<TwoIds(op.qargs[1], op.qargs[2])>>]>>)
    ELSE LET bad == {i \in 1..Len(op.qargs) :
                        \/ "tuple" \notin DOMAIN op.qargs[i]
                        \/ Len(op.qargs[i].tuple) # 2}
             first == CHOOSE i \in bad : \A j \in bad : i <= j
         IN  IF bad = {}
                THEN Ok(<<[qop |-> op.sym,
                           args |-> [i \in 1..Len(op.qargs) |->
                                        TwoIds(op.qargs[i].tuple[1], op.qargs[i].tuple[2])]]>>)
             ELSE IF "tuple" \notin DOMAIN op.qargs[first]
                THEN Raise("TypeError: Expected two-qubit tuple arguments")
             ELSE Raise("ValueError: unpack")

\* gen_phir._process_qgate
ProcessQGate(op) ==
    IF op.qsize > 2 THEN Raise("ValueError: Gates with more than 2 qubits not supported")
    ELSE IF op.qsize = 2 THEN ProcessTqGate(op)
    ELSE ProcessSqGate(op)

\* list(range(n)), from 0
RECURSIVE UpTo(_)
UpTo(n) == IF n <= 0 THEN <<>> ELSE Append(UpTo(n - 1), n - 1)

\* _generate_barrier / BarrierHandler.handle; isinstance(q, QReg) holds for
\* a QReg only (QReg is the subclass of QubitArray)
RECURSIVE BarrierIds(_)
BarrierIds(qregs) ==
    IF qregs = <<>> THEN <<>>
    ELSE LET q == Head(qregs)
         IN  (IF "type" \in DOMAIN q /\ q.type = "QReg"
                 THEN [i \in 1..q.size |-> QubitToId(Elem(q.sym, UpTo(q.size)[i]))]
                 ELSE <<QubitToId(q)>>)
             \o BarrierIds(Tail(qregs))
GenerateBarrier(op) == Ok(<<[meta |-> "barrier", args |-> BarrierIds(op.qregs)]>>)

\* the class names generate_op and handle_op hand to the classical handler
ClassicalOps ==
    {"SET", "EQUIV", "NEQUIV", "LT", "GT", "LE", "GE", "MUL", "DIV", "XOR",
     "AND", "OR", "PLUS", "MINUS", "RSHIFT", "LSHIFT", "NEG", "NOT"}

\* gen_phir.generate_op for a statement that is not a block; None is <<>>
GenerateOp(op) ==
    IF op.type = "Barrier" THEN GenerateBarrier(op)
    ELSE IF op.type \in ClassicalOps THEN ProcessClassicalExpr(op)
    ELSE IF IsQGate(op) THEN ProcessQGate(op)
    ELSE Ok(<<>>)

\* generators.phir PHIRGenerator.handle_op, and the Barrier handler
\* process_block_ops calls itself; None is <<>>
HandleOp(op) ==
    IF IsQGate(op)
        THEN IF op.qsize = 1 THEN ProcessSqGate(op) ELSE ProcessTqGate(op)
    ELSE IF op.type \in ClassicalOps THEN ProcessClassicalExpr(op)
    ELSE IF op.type = "Barrier" THEN GenerateBarrier(op)
    ELSE Ok(<<>>)

\* ------------------------------------------------------------------------
\* Compiler: lowering of blocks
\* ------------------------------------------------------------------------
RECURSIVE ProcessBlockOps(_, _)
RECURSIVE ProcessIfBlock(_, _)
RECURSIVE GenerateNested(_, _)
RECURSIVE BlockItems(_, _)
RECURSIVE SharedBlockItems(_, _, _)

\* _process_if_block / BlockHandler.handle
ProcessIfBlock(g, block) ==
    LET c == ProcessClassicalExpr(block.cond)
        b == ProcessBlockOps(g, block.ops)
    IN  IF c.err # "" THEN Raise(c.err)
        ELSE IF b.err # "" THEN Raise(b.err)
        ELSE Ok(<<[block |-> "if", condition |-> c.ops[1], true_branch |-> b.ops]>>)

\* generate_block(block) run on a generator of its own for a nested block
\* that is not a Main: the records it leaves in that generator's output
GenerateNested(g, block) ==
    IF block.type = "If" THEN ProcessIfBlock(g, block)
    ELSE IF block.type = "Repeat"
        THEN IF block.cond.value <= 0 THEN Ok(<<>>)
             ELSE LET b == ProcessBlockOps(g, block.ops)
                  IN  IF b.err # "" THEN Raise(b.err)
                      ELSE Ok(Copies(block.cond.value, b.ops))
    ELSE ProcessBlockOps(g, block.ops)

\* gen_phir._process_block_ops: every nested block gets a generator of its
\* own (inner_phir)
BlockItems(g, ops) ==
    IF ops = <<>> THEN Ok(<<>>)
    ELSE LET op == Head(ops)
             first ==
                 IF HasOps(op)
                    THEN IF op.type = "If" THEN ProcessIfBlock(g, op)
                         ELSE LET inner == GenerateNested(g, op)
                              IN  IF inner.err # "" THEN Raise(inner.err)
                                  ELSE IF inner.ops # <<>>
                                      THEN Ok(<<[block |-> "sequence", ops |-> inner.ops]>>)
                                  ELSE Ok(<<>>)
                 ELSE GenerateOp(op)
         IN  IF first.err # "" THEN Raise(first.err)
             ELSE AndThen(first, BlockItems(g, Tail(ops)))

\* The record appended for a nested block by generators.phir
\* process_block_ops holds the list object phir.output["ops"] itself.
SharedList == [alias |-> "phir.output.ops"]

\* generators.phir PHIRGenerator.process_block_ops, the loop: one generator
\* (phir) serves every nested block of the loop; acc is phir.output["ops"].
\* The result carries acc as it is after the loop.
SharedBlockItems(g, ops, acc) ==
    IF ops = <<>> THEN [err |-> "", ops |-> <<>>, acc |-> acc]
    ELSE LET op == Head(ops)
         IN  IF HasOps(op) /\ op.type # "If"
                THEN LET inner == GenerateNested(g, op)
                         acc2 == acc \o inner.ops
                         rest == SharedBlockItems(g, Tail(ops), acc2)
                     IN  IF inner.err # "" THEN [err |-> inner.err, ops |-> <<>>, acc |-> acc]
                         ELSE IF rest.err # "" THEN rest
                         ELSE [err |-> "",
                               ops |-> (IF acc2 # <<>> THEN <<SharedList>> ELSE <<>>) \o rest.ops,
                               acc |-> rest.acc]
             ELSE LET first == IF HasOps(op) THEN ProcessIfBlock(g, op) ELSE HandleOp(op)
                      rest == SharedBlockItems(g, Tail(ops), acc)
                  IN  IF first.err # "" THEN [err |-> first.err, ops |-> <<>>, acc |-> acc]
                      ELSE IF rest.err # "" THEN rest
                      ELSE [err |-> "", ops |-> first.ops \o rest.ops, acc |-> rest.acc]

\* generators.phir PHIRGenerator.process_block_ops: what the returned list
\* holds once the loop has ended
SharedBlockOps(g, ops) ==
    LET r == SharedBlockItems(g, ops, <<>>)
    IN  IF r.err # "" THEN Raise(r.err)
        ELSE Ok([i \in 1..Len(r.ops) |->
                    IF r.ops[i] = SharedList
                       THEN [block |-> "sequence", ops |-> r.acc]
                       ELSE r.ops[i]])

\* _process_block_ops (g = "gen_codes"), process_block_ops (g = "generators")
ProcessBlockOps(g, ops) ==
    IF g = "gen_codes" THEN BlockItems(g, ops) ELSE SharedBlockOps(g, ops)

\* ------------------------------------------------------------------------
\* Programs compiled
\* ------------------------------------------------------------------------
SeqsUpTo(S, n) == UNION {[1..k -> S] : k \in 0..n}

Rq == Reg("QReg", "q", 3)
Rc == Reg("CReg", "c", 2)
Ra == Reg("CReg", "a", 0)
Rd == Reg("CReg", "d", 1)

X == QGate("X", 1, <<Elem("q", 0)>>)
CX == QGate("CX", 2, <<Elem("q", 0), Elem("q", 1)>>)
CCX == QGate("CCX", 3, <<Elem("q", 0), Elem("q", 1), Elem("q", 2)>>)

Leaves == {X, CX, CCX}
RepeatCounts == 0..MaxRepeat

NestedBlocks ==
    {If(EQUIV("c", 0, 1), <<X>>),
     IfElse(EQUIV("c", 0, 1), <<X>>, <<CX>>),
     Repeat(MaxRepeat, <<X>>),
     Block(<<>>),
     Block(<<X>>)}

Statements == Leaves \cup NestedBlocks
Bodies == SeqsUpTo(Statements, MaxBody)
MainBodies == SeqsUpTo(Statements \cup {Vars(<<Rd>>)}, MaxBody)

Declarations ==
    {vs \in SeqsUpTo({Rq, Rc, Ra}, MaxVars) : \A i, j \in 1..Len(vs) : i # j => vs[i] # vs[j]}

Programs ==
    {Main(vs, b) : vs \in Declarations, b \in MainBodies}
    \cup {If(EQUIV("c", 1, 0), b) : b \in Bodies}
    \cup {IfElse(EQUIV("c", 1, 0), b, <<X>>) : b \in Bodies}
    \cup {Repeat(n, b) : n \in RepeatCounts, b \in Bodies}
    \cup {Block(b) : b \in Bodies}

\* ------------------------------------------------------------------------
\* GeneralNoiseModel: parameters
\* ------------------------------------------------------------------------
\* a parameter value: the rational n / d in lowest terms
RECURSIVE GCD(_, _)
GCD(a, b) == IF b = 0 THEN a ELSE GCD(b, a % b)
Q(n, d) == IF n = 0 THEN [n |-> 0, d |-> 1] ELSE [n |-> n \div GCD(n, d), d |-> d \div GCD(n, d)]
Mul(a, b) == Q(a.n * b.n, a.d * b.d)

\* the keys of _set_eparams_default that the model follows, with the value
\* each receives when the caller has not supplied it
ProbKeys == {"p1", "p2", "p_init"}
ScaleKeys == {"scale", "init_scale", "leakage_scale", "p1_scale", "p2_scale"}
RatioKeys == {"p_init_leak_ratio"}
DefaultOf(key) ==
    IF key \in ProbKeys THEN Q(0, 1)
    ELSE IF key \in ScaleKeys THEN Q(1, 1)
    ELSE Q(1, 2)

\* _set_eparams_default on e, a copy of error_params
SetEparamsDefault(e) ==
    [key \in DOMAIN e \cup ProbKeys \cup ScaleKeys \cup RatioKeys |->
        IF key \in DOMAIN e THEN e[key] ELSE DefaultOf(key)]

\* _scale on e: the scale multipliers, then the factors from average to
\* total error
Scale(e) ==
    [e EXCEPT !["p1"] = Mul(Mul(Mul(e["p1"], e["p1_scale"]), e["scale"]), Q(3, 2)),
              !["p2"] = Mul(Mul(Mul(e["p2"], e["p2_scale"]), e["scale"]), Q(5, 4)),
              !["p_init"] = Mul(Mul(e["p_init"], e["init_scale"]), e["scale"]),
              !["p_init_leak_ratio"] = Mul(e["p_init_leak_ratio"], e["leakage_scale"])]

\* self._eparams before init() has run
NoRates == [key \in {"None"} |-> Q(0, 1)]

\* error_params dictionaries a caller hands to GeneralNoiseModel
FullParams ==
    [key \in ProbKeys \cup ScaleKeys \cup RatioKeys |->
        IF key = "p1" THEN Q(1, 100)
        ELSE IF key = "p2" THEN Q(1, 50)
        ELSE IF key = "p_init" THEN Q(1, 10)
        ELSE IF key = "scale" THEN Q(2, 1)
        ELSE IF key = "p1_scale" THEN Q(3, 1)
        ELSE IF key = "p_init_leak_ratio" THEN Q(1, 2)
        ELSE Q(1, 1)]
GateParams == [key \in {"p1", "p2", "scale"} |-> IF key = "scale" THEN Q(2, 1) ELSE Q(1, 100)]
InitParams == [key \in {"p1", "p_init", "leakage_scale"} |-> IF key = "p_init" THEN Q(1, 10) ELSE Q(1, 1)]
NoParams == [key \in {} |-> Q(0, 1)]
ShotParams == {FullParams, GateParams, InitParams}
RawParams == {[key \in K |-> FullParams[key]] : K \in SUBSET (ProbKeys \cup ScaleKeys \cup RatioKeys)}

\* ------------------------------------------------------------------------
\* generate_block(prog) on a new PHIRGenerator
\* ------------------------------------------------------------------------
\* no HybridEngine takes part
EngineOff ==
    /\ phir = <<>>
    /\ shots = 0
    /\ estate = "off"
    /\ eshot = 0
    /\ todo = <<>>
    /\ cenv = <<>>
    /\ sim = <<>>
    /\ results = <<>>
    /\ written = {}

\* no RegSlice takes part
SliceOff ==
    /\ reg_size = 0
    /\ indices = <<>>
    /\ spc = "off"
    /\ serr = ""
    /\ iterated = <<>>
    /\ other = <<>>
    /\ combined = <<>>
    /\ items = <<>>

\* neither a HybridEngine nor a RegSlice takes part
OthersOff == EngineOff /\ SliceOff

\* no GeneralNoiseModel takes part
NoiseOff ==
    /\ eparams = [has_noiseless_gates |-> FALSE, noiseless_gates |-> {}, p2_mem |-> FALSE]
    /\ leaked_qubits = {}
    /\ qops = <<>>
    /\ qi = 0
    /\ noisy_ops = <<>>
    /\ branches = <<>>
    /\ npc = "off"
    /\ returned = <<>>
    /\ error_params = NoParams
    /\ rates = NoRates
    /\ inits = 0
    /\ reset_leakage = TRUE
    /\ shot = 0
    /\ added = {}
    /\ nerr = ""
    /\ draws = <<>>

Init ==
    /\ impl \in {"gen_codes", "generators"}
    /\ prog \in Programs
    /\ output = <<>>
    /\ current_scope = "None"
    /\ pc = "ready"
    /\ vi = 0
    /\ err = ""
    /\ run = 1
    /\ first_ops = <<>>
    /\ NoiseOff
    /\ OthersOff

\* the exception leaves generate_block; output stays as it is
Throw(e) ==
    /\ pc' = "error"
    /\ err' = e
    /\ UNCHANGED <<output, vi>>

\* enter_block, up to the first loop
EnterBlock ==
    /\ pc = "ready"
    /\ current_scope' = "prog"
    /\ pc' = IF prog.type = "Main" THEN "vars" ELSE "generate"
    /\ vi' = 1
    /\ UNCHANGED <<impl, prog, output, err, run, first_ops, noise_vars, other_vars>>

\* DeclareVar with the definition inserted at the head of the stream
DeclareVarAtHead ==
    /\ pc = "vars"
    /\ vi <= Len(prog.vars)
    /\ LET r == ProcessVarDef(prog.vars[vi])
       IN  IF r.err # "" THEN Throw(r.err)
           ELSE /\ output' = r.ops \o output
                /\ vi' = vi + 1
                /\ UNCHANGED <<pc, err>>
    /\ UNCHANGED <<impl, prog, current_scope, run, first_ops, noise_vars, other_vars>>

\* enter_block: one round of  for var in block.vars
DeclareVar ==
    /\ pc = "vars"
    /\ vi <= Len(prog.vars)
    /\ LET r == ProcessVarDef(prog.vars[vi])
       IN  IF r.err # "" THEN Throw(r.err)
           ELSE /\ output' = output \o r.ops
                /\ vi' = vi + 1
                /\ UNCHANGED <<pc, err>>
    /\ UNCHANGED <<impl, prog, current_scope, run, first_ops, noise_vars, other_vars>>

\* the definitions of the Vars statements among ops, up to the first
\* exception
RECURSIVE VarsDefs(_)
VarsDefs(vs) ==
    IF vs = <<>> THEN Ok(<<>>)
    ELSE LET r == ProcessVarDef(Head(vs))
         IN  IF r.err # "" THEN r
             ELSE LET rest == VarsDefs(Tail(vs))
                  IN  [err |-> rest.err, ops |-> r.ops \o rest.ops]

RECURSIVE VarsOfOps(_)
VarsOfOps(ops) ==
    IF ops = <<>> THEN <<>>
    ELSE (IF Head(ops).type = "Vars" THEN Head(ops).vars ELSE <<>>) \o VarsOfOps(Tail(ops))

\* enter_block: the loop  for op in block.ops  over the Vars statements
DeclareVarsOps ==
    /\ pc = "vars"
    /\ vi > Len(prog.vars)
    /\ LET r == VarsDefs(VarsOfOps(prog.ops))
       IN  /\ output' = output \o r.ops
           /\ IF r.err # ""
                 THEN pc' = "error" /\ err' = r.err
                 ELSE pc' = "generate" /\ UNCHANGED err
    /\ vi' = 1
    /\ UNCHANGED <<impl, prog, current_scope, run, first_ops, noise_vars, other_vars>>

\* GenerateIf with the records of the body appended to the stream itself
GenerateIfInline ==
    /\ pc = "generate"
    /\ prog.type = "If"
    /\ LET r == ProcessBlockOps(impl, prog.ops)
       IN  IF r.err # "" THEN Throw(r.err)
           ELSE /\ output' = output \o r.ops
                /\ pc' = "exit"
                /\ UNCHANGED <<vi, err>>
    /\ UNCHANGED <<impl, prog, current_scope, run, first_ops, noise_vars, other_vars>>

\* generate_block, block_name == "If"
GenerateIf ==
    /\ pc = "generate"
    /\ prog.type = "If"
    /\ LET r == ProcessIfBlock(impl, prog)
       IN  IF r.err # "" THEN Throw(r.err)
           ELSE /\ output' = output \o r.ops
                /\ pc' = "exit"
                /\ UNCHANGED <<vi, err>>
    /\ UNCHANGED <<impl, prog, current_scope, run, first_ops, noise_vars, other_vars>>

\* generate_block, block_name == "Repeat": one round of  for _ in range(block.cond)
GenerateRepeat ==
    /\ pc = "generate"
    /\ prog.type = "Repeat"
    /\ vi <= prog.cond.value
    /\ LET r == ProcessBlockOps(impl, prog.ops)
       IN  IF r.err # "" THEN Throw(r.err)
           ELSE /\ output' = output \o r.ops
                /\ vi' = vi + 1
                /\ UNCHANGED <<pc, err>>
    /\ UNCHANGED <<impl, prog, current_scope, run, first_ops, noise_vars, other_vars>>

\* generate_block, block_name == "Repeat": range(block.cond) is exhausted
RepeatDone ==
    /\ pc = "generate"
    /\ prog.type = "Repeat"
    /\ vi > prog.cond.value
    /\ pc' = "exit"
    /\ UNCHANGED <<impl, prog, output, current_scope, vi, err, run, first_ops, noise_vars, other_vars>>

\* generate_block, any other block
GenerateOps ==
    /\ pc = "generate"
    /\ prog.type \notin {"If", "Repeat"}
    /\ LET r == ProcessBlockOps(impl, prog.ops)
       IN  IF r.err # "" THEN Throw(r.err)
           ELSE /\ output' = output \o r.ops
                /\ pc' = "exit"
                /\ UNCHANGED <<vi, err>>
    /\ UNCHANGED <<impl, prog, current_scope, run, first_ops, noise_vars, other_vars>>

\* generate_block: self.current_scope = previous_scope
ExitBlock ==
    /\ pc = "exit"
    /\ current_scope' = "None"
    /\ pc' = "done"
    /\ UNCHANGED <<impl, prog, output, vi, err, run, first_ops, noise_vars, other_vars>>

vars == <<gen_vars, noise_vars, other_vars>>

Next ==
    \/ EnterBlock
    \/ DeclareVar
    \/ DeclareVarsOps
    \/ GenerateIf
    \/ GenerateRepeat
    \/ RepeatDone
    \/ GenerateOps
    \/ ExitBlock

Spec == Init /\ [][Next]_vars

\* generate_block(prog) is called again on the generator that has already
\* compiled prog (the instance registered under "phir" serves every caller)
GenerateAgain ==
    /\ pc = "done"
    /\ run = 1
    /\ first_ops' = output
    /\ run' = 2
    /\ pc' = "ready"
    /\ vi' = 0
    /\ UNCHANGED <<impl, prog, output, current_scope, err, noise_vars, other_vars>>

\* prog is compiled again by a PHIRGenerator constructed for it
GenerateOnNew ==
    /\ pc = "done"
    /\ run = 1
    /\ first_ops' = output
    /\ run' = 2
    /\ output' = <<>>
    /\ current_scope' = "None"
    /\ pc' = "ready"
    /\ vi' = 0
    /\ UNCHANGED <<impl, prog, err, noise_vars, other_vars>>

NextTwice ==
    \/ EnterBlock
    \/ DeclareVar
    \/ DeclareVarsOps
    \/ GenerateIf
    \/ GenerateRepeat
    \/ RepeatDone
    \/ GenerateOps
    \/ ExitBlock
    \/ GenerateAgain
    \/ GenerateOnNew

SpecTwice == Init /\ [][NextTwice]_vars

\* ------------------------------------------------------------------------
\* Programs of one statement: gates, measurements, barriers and classical
\* operations
\* ------------------------------------------------------------------------
Rp == Reg("QReg", "p", 2)
Rr == Reg("QubitArray", "r", 2)
Q0 == Elem("q", 0)
Q1 == Elem("q", 1)
Q2 == Elem("q", 2)
C0 == Elem("c", 0)
C1 == Elem("c", 1)

\* single-qubit gates and measurements, on qubits and on whole registers
SqStatements ==
    {QGate("H", 1, <<Q0>>), QGate("H", 1, <<Q0, Q1>>), QGate("H", 1, <<Rp>>),
     QGate("H", 1, <<Q2, Rp>>),
     MeasureTo(<<Q0>>, <<C0>>), MeasureTo(<<Q0, Q1>>, <<C0, C1>>),
     MeasureTo(<<Q0>>, <<Rd>>), MeasureTo(<<Rp>>, <<Rc>>)}

\* two-qubit gates: a flat pair, 2-tuples, and the other shapes
TqStatements ==
    {QGate("CX", 2, qargs) :
        qargs \in {<<Q0, Q1>>, <<Q1, Q0>>,
                   <<Tuple(<<Q0, Q1>>)>>, <<Tuple(<<Q0, Q1>>), Tuple(<<Q1, Q2>>)>>,
                   <<Tuple(<<Q0, Q1>>), Q2>>, <<Q2, Tuple(<<Q0, Q1>>)>>,
                   <<Tuple(<<Q0, Q1, Q2>>)>>, <<Tuple(<<Q0>>)>>,
                   <<Q0, Q1, Q2>>, <<Q0>>}}

BarrierStatements ==
    {Barrier(qregs) :
        qregs \in {<<Q0>>, <<Q1, Q0>>, <<Rq>>, <<Rp, Q0>>, <<Q2, Rp>>, <<Rr>>, <<Rr, Q0>>}}

\* classical expressions: operands, operations over operands, operations
\* over an operation
Operands0 == {IntExpr(1), C0, Rd}
Operations1 ==
    {NOT(a) : a \in Operands0}
        \cup {AND(a, b) : a \in Operands0, b \in Operands0}
        \cup {OR(a, b) : a \in Operands0, b \in Operands0}
Operations2 ==
    {NOT(e) : e \in Operations1}
        \cup {AND(e, a) : e \in Operations1, a \in Operands0}
        \cup {AND(a, e) : e \in Operations1, a \in Operands0}
        \cup {OR(e, a) : e \in Operations1, a \in Operands0}
ClassicalStatements ==
    Operations1 \cup Operations2
        \cup {SET(l, r) : l \in {C0, Rd}, r \in Operands0 \cup Operations1 \cup Operations2}

OpStatements == SqStatements \cup TqStatements \cup BarrierStatements \cup ClassicalStatements

OpPrograms ==
    {Main(<<Rq, Rc>>, <<s>>) : s \in OpStatements}
        \cup {Block(<<s>>) : s \in OpStatements}
        \cup {If(EQUIV("c", 0, 1), <<s>>) : s \in OpStatements}
        \cup {Repeat(2, <<s>>) : s \in OpStatements}

\* generate_block(prog) on a new PHIRGenerator, prog of one statement
InitOps ==
    /\ impl \in {"gen_codes", "generators"}
    /\ prog \in OpPrograms
    /\ output = <<>>
    /\ current_scope = "None"
    /\ pc = "ready"
    /\ vi = 0
    /\ err = ""
    /\ run = 1
    /\ first_ops = <<>>
    /\ NoiseOff
    /\ OthersOff

SpecOps == InitOps /\ [][Next]_vars

\* programs compiled after another one
SecondPrograms == {Main(<<Rc>>, <<X>>), Repeat(2, <<X>>), Block(<<CX>>)}

\* generate_block(P2) is called on the generator that has already compiled
\* prog: neither generate_block nor generate resets self.output
GenerateNext ==
    /\ pc = "done"
    /\ run = 1
    /\ prog' \in SecondPrograms
    /\ first_ops' = output
    /\ run' = 2
    /\ pc' = "ready"
    /\ vi' = 0
    /\ UNCHANGED <<impl, output, current_scope, err, noise_vars, other_vars>>

NextAfter ==
    \/ EnterBlock
    \/ DeclareVar
    \/ DeclareVarsOps
    \/ GenerateIf
    \/ GenerateRepeat
    \/ RepeatDone
    \/ GenerateOps
    \/ ExitBlock
    \/ GenerateNext

SpecAfter == Init /\ [][NextAfter]_vars

\* get_output()
GetOutput == output

\* ------------------------------------------------------------------------
\* GeneralNoiseModel.process
\* ------------------------------------------------------------------------
\* gate_groups.one_qubits and gate_groups.two_qubits: the names present here
\* stand for their members
one_qubits == {"X"}
two_qubits == {"CX"}

\* QOp(name, args); src tells the ops of qops from the ops a fault creates
QOp(name, args) == [name |-> name, args |-> args, src |-> "fault"]
InputOp(name, args) == [name |-> name, args |-> args, src |-> "qops"]

\* the qubits the ops of the model act on
ArgsOf(name) == IF name \in two_qubits THEN <<0, 1>> ELSE <<0>>

OpNames == {"Init", "X", "CX", "Measure", "Idle", "Foo"}
InputOps == {InputOp(n, ArgsOf(n)) : n \in OpNames}

\* the values of error_params["noiseless_gates"]; absent is has_noiseless_gates = FALSE
NoiselessChoices ==
    {[has_noiseless_gates |-> FALSE, noiseless_gates |-> {}],
     [has_noiseless_gates |-> TRUE, noiseless_gates |-> {"Foo"}],
     [has_noiseless_gates |-> TRUE, noiseless_gates |-> {"X", "Init"}]}

\* no PHIRGenerator takes part
GenOff ==
    /\ impl = "gen_codes"
    /\ prog = Block(<<>>)
    /\ output = <<>>
    /\ current_scope = "None"
    /\ pc = "off"
    /\ vi = 0
    /\ err = ""
    /\ run = 1
    /\ first_ops = <<>>

\* the model after init(num_qubits), process(qops) has been called
InitNoise ==
    /\ GenOff
    /\ OthersOff
    /\ \E n \in NoiselessChoices, m \in BOOLEAN :
          eparams = [has_noiseless_gates |-> n.has_noiseless_gates,
                     noiseless_gates |-> n.noiseless_gates,
                     p2_mem |-> m]
    /\ leaked_qubits \in SUBSET {0}
    /\ qops \in SeqsUpTo(InputOps, MaxOps)
    /\ qi = 1
    /\ noisy_ops = <<>>
    /\ branches = <<>>
    /\ npc = "loop"
    /\ returned = <<>>
    /\ error_params = FullParams
    /\ rates = Scale(SetEparamsDefault(FullParams))
    /\ inits = 1
    /\ reset_leakage = FALSE
    /\ shot = 1
    /\ added = {}
    /\ nerr = ""
    /\ draws = <<>>

\* Classify with every name no case matches treated as a noiseless gate
ClassifyLenient(name) ==
    IF eparams.has_noiseless_gates /\ name \in eparams.noiseless_gates THEN "noiseless"
    ELSE IF name \in {"init |0>", "Init", "Init +Z"} THEN "init"
    ELSE IF name \in one_qubits THEN "one_qubit"
    ELSE IF name \in two_qubits THEN "two_qubit"
    ELSE IF name \in {"measure Z", "Measure", "Measure +Z"} THEN "measure"
    ELSE IF name \in {"Idle", "Sleep"} THEN "idle"
    ELSE "noiseless"

\* match op.name: the first case that matches
Classify(name) ==
    IF eparams.has_noiseless_gates /\ name \in eparams.noiseless_gates THEN "noiseless"
    ELSE IF name \in {"init |0>", "Init", "Init +Z"} THEN "init"
    ELSE IF name \in one_qubits THEN "one_qubit"
    ELSE IF name \in two_qubits THEN "two_qubit"
    ELSE IF name \in {"measure Z", "Measure", "Measure +Z"} THEN "measure"
    ELSE IF name \in {"Idle", "Sleep"} THEN "idle"
    ELSE "unhandled"

\* a value a fault function returns: None, or a list of ops
None == [none |-> TRUE, ops |-> <<>>]
List(ops) == [none |-> FALSE, ops |-> ops]
Truthy(v) == ~v.none /\ v.ops # <<>>

\* what noise_sq_depolarizing_leakage, noise_tq_depolarizing_leakage and
\* noise_meas_bitflip_leakage may return for op: nothing, the op, the op
\* with a Pauli fault
FaultResults(op) ==
    {None, List(<<>>), List(<<op>>), List(<<op, QOp("Z", <<op.args[1]>>)>>)}

\* faults_init(op, flip = "X") on an op without crosstalk metadata: every
\* qubit of op.args is flipped, marked to leak, or left alone, and a marked
\* qubit leaks or not. The parameters are read from self.error_params: p_init
\* first, p_init_leak_ratio when a fault has occurred, leakage_scale last;
\* err is the KeyError of the first read of an absent key.
FaultsInitResults(op) ==
    IF "p_init" \notin DOMAIN error_params
       THEN {[err |-> "KeyError: p_init", after |-> List(<<>>), leaked |-> {}]}
    ELSE {[err |-> IF "leakage_scale" \in DOMAIN error_params THEN "" ELSE "KeyError: leakage_scale",
           after |-> List(<<>>), leaked |-> {}]}
         \cup
         (IF "p_init_leak_ratio" \notin DOMAIN error_params
             THEN {[err |-> "KeyError: p_init_leak_ratio", after |-> List(<<>>), leaked |-> {}]}
          ELSE IF "leakage_scale" \notin DOMAIN error_params
             THEN {[err |-> "KeyError: leakage_scale", after |-> List(<<>>), leaked |-> {}]}
          ELSE {[err |-> "", after |-> List(<<QOp("X", <<op.args[1]>>)>>), leaked |-> {}],
                [err |-> "", after |-> List(<<>>), leaked |-> {op.args[1]}]})

\* faults_dephasing: None, a coherent RZ or an incoherent Z
FaultsDephasingResults(op) ==
    {None, List(<<QOp("RZ", op.args)>>), List(<<QOp("Z", op.args)>>)}

\* Assemble with the faults of qops_after put in front of the op
AssembleAfterFirst(op, erroneous_ops, qops_after) ==
    noisy_ops \o (IF Truthy(qops_after) THEN qops_after.ops ELSE <<>>)
              \o (IF erroneous_ops.none THEN <<op>> ELSE erroneous_ops.ops)

\* the end of the loop body: noisy_ops after qops_before (None),
\* erroneous_ops and qops_after have been looked at
Assemble(op, erroneous_ops, qops_after) ==
    noisy_ops \o (IF erroneous_ops.none THEN <<op>> ELSE erroneous_ops.ops)
              \o (IF Truthy(qops_after) THEN qops_after.ops ELSE <<>>)

\* what the loop body has drawn for an op, and the part of noisy_ops it
\* has written: noisy_ops[start..end]
Drawn(erroneous_ops, qops_after, qops_mem, new_ops) ==
    [erroneous |-> erroneous_ops, after |-> qops_after, mem |-> qops_mem,
     start |-> Len(noisy_ops) + 1, end |-> Len(new_ops)]

\* the loop body has ended with noisy_ops = new_ops
Extended(erroneous_ops, qops_after, qops_mem, new_ops) ==
    /\ noisy_ops' = new_ops
    /\ draws' = Append(draws, Drawn(erroneous_ops, qops_after, qops_mem, new_ops))

\* one round of  for op in qops
ProcessOp ==
    /\ npc = "loop"
    /\ qi <= Len(qops)
    /\ LET op == qops[qi]
           case == Classify(op.name)
       IN  /\ branches' = Append(branches, case)
           /\ IF case = "unhandled"
                 THEN /\ npc' = "raised"
                      /\ nerr' = "Exception: This error model doesn't handle gate"
                      /\ UNCHANGED <<noisy_ops, leaked_qubits, qi, added, draws>>
              ELSE IF case = "init"
                 THEN \E r \in FaultsInitResults(op) :
                         /\ leaked_qubits' = (leaked_qubits \ {op.args[i] : i \in 1..Len(op.args)}) \cup r.leaked
                         /\ added' = added \cup r.leaked
                         /\ IF r.err # ""
                               THEN /\ npc' = "raised"
                                    /\ nerr' = r.err
                                    /\ UNCHANGED <<noisy_ops, qi, draws>>
                               ELSE /\ Extended(None, r.after, None, Assemble(op, None, r.after))
                                    /\ qi' = qi + 1
                                    /\ UNCHANGED <<npc, nerr>>
              ELSE /\ qi' = qi + 1
                   /\ UNCHANGED <<npc, nerr, leaked_qubits, added>>
                   /\ IF case = "noiseless"
                         THEN Extended(None, None, None, Assemble(op, None, None))
                      ELSE IF case = "two_qubit"
                         THEN \E after \in FaultResults(op),
                                 mem \in (IF eparams.p2_mem THEN FaultResults(op) ELSE {None}) :
                                 Extended(None, after, mem,
                                          Assemble(op, None,
                                                   IF eparams.p2_mem /\ Truthy(after) THEN None ELSE after))
                      ELSE IF case = "idle"
                         THEN \E r \in FaultsDephasingResults(op) :
                                 LET erroneous_ops == IF r.none THEN List(<<QOp("I", <<>>)>>) ELSE r
                                 IN  Extended(erroneous_ops, None, None, Assemble(op, erroneous_ops, None))
                      ELSE \E r \in FaultResults(op) :
                                 Extended(r, None, None, Assemble(op, r, None))
    /\ UNCHANGED <<eparams, qops, returned, error_params, rates, inits, reset_leakage, shot, gen_vars, other_vars>>

\* return noisy_ops
ProcessReturn ==
    /\ npc = "loop"
    /\ qi > Len(qops)
    /\ returned' = noisy_ops
    /\ npc' = "returned"
    /\ UNCHANGED <<eparams, leaked_qubits, qops, qi, noisy_ops, branches,
                   error_params, rates, inits, reset_leakage, shot, added, nerr, draws, gen_vars, other_vars>>

NextNoise ==
    \/ ProcessOp
    \/ ProcessReturn

SpecNoise == InitNoise /\ [][NextNoise]_vars

\* ------------------------------------------------------------------------
\* GeneralNoiseModel: init() and the shots
\* ------------------------------------------------------------------------
\* GeneralNoiseModel(error_params) for error_params in params
Constructed(params) ==
    /\ GenOff
    /\ OthersOff
    /\ eparams = [has_noiseless_gates |-> FALSE, noiseless_gates |-> {}, p2_mem |-> FALSE]
    /\ leaked_qubits = {}
    /\ qops = <<>>
    /\ qi = 0
    /\ noisy_ops = <<>>
    /\ branches = <<>>
    /\ npc = "off"
    /\ returned = <<>>
    /\ error_params \in params
    /\ rates = NoRates
    /\ inits = 0
    /\ reset_leakage = TRUE
    /\ shot = 0
    /\ added = {}
    /\ nerr = ""
    /\ draws = <<>>

\* InitModel that scales the parameters self._eparams already holds
InitModelCompounding ==
    /\ npc \in {"off", "returned"}
    /\ inits < MaxInits
    /\ inits' = inits + 1
    /\ \E flag \in BOOLEAN :
          /\ reset_leakage' = flag
          /\ leaked_qubits' = IF flag THEN {} ELSE leaked_qubits
    /\ IF DOMAIN error_params = {}
          THEN /\ nerr' = "Exception: Error params not set!"
               /\ npc' = "raised"
               /\ UNCHANGED rates
          ELSE /\ rates' = Scale(SetEparamsDefault(IF inits = 0 THEN error_params ELSE rates))
               /\ UNCHANGED <<nerr, npc>>
    /\ UNCHANGED <<eparams, qops, qi, noisy_ops, branches, returned, error_params, shot, added, draws, gen_vars, other_vars>>

\* init(num_qubits, machine, reset_leakage)
InitModel ==
    /\ npc \in {"off", "returned"}
    /\ inits < MaxInits
    /\ inits' = inits + 1
    /\ \E flag \in BOOLEAN :
          /\ reset_leakage' = flag
          /\ leaked_qubits' = IF flag THEN {} ELSE leaked_qubits
    /\ IF DOMAIN error_params = {}
          THEN /\ nerr' = "Exception: Error params not set!"
               /\ npc' = "raised"
               /\ UNCHANGED rates
          ELSE /\ rates' = Scale(SetEparamsDefault(error_params))
               /\ UNCHANGED <<nerr, npc>>
    /\ UNCHANGED <<eparams, qops, qi, noisy_ops, branches, returned, error_params, shot, added, draws, gen_vars, other_vars>>

InitSetup == Constructed(RawParams)
SpecInit == InitSetup /\ [][InitModel]_vars

\* the ops of a shot
ShotOps == {InputOp(n, ArgsOf(n)) : n \in {"Init", "X"}}

\* a shot starts: shot_reinit(), then process(qops)
StartShot ==
    /\ inits >= 1
    /\ npc \in {"off", "returned"}
    /\ shot < MaxShots
    /\ shot' = shot + 1
    /\ added' = {}
    /\ qops' \in SeqsUpTo(ShotOps, MaxOps)
    /\ qi' = 1
    /\ noisy_ops' = <<>>
    /\ branches' = <<>>
    /\ draws' = <<>>
    /\ npc' = "loop"
    /\ UNCHANGED <<eparams, leaked_qubits, returned, error_params, rates, inits, reset_leakage, nerr, gen_vars, other_vars>>

InitShots == Constructed(ShotParams)

NextShots ==
    \/ InitModel
    \/ StartShot
    \/ ProcessOp
    \/ ProcessReturn

SpecShots == InitShots /\ [][NextShots]_vars

\* ------------------------------------------------------------------------
\* HybridEngine.run(phir, shots): the interpreter loop over the op-stream
\* ------------------------------------------------------------------------
\* the classical expressions of the op-stream
Lit(v) == [t |-> "lit", v |-> v]
Var(sym) == [t |-> "var", sym |-> sym]
Bit(sym, idx) == [t |-> "bit", sym |-> sym, idx |-> idx]
Cop1(op, a) == [t |-> "cop", cop |-> op, args |-> <<a>>]
Cop2(op, a, b) == [t |-> "cop", cop |-> op, args |-> <<a, b>>]

\* the op records of the op-stream
CVarDefine(sym, size) == [data |-> "cvar_define", data_type |-> "i64", variable |-> sym, size |-> size]
QVarDefine(sym, size) == [data |-> "qvar_define", data_type |-> "qubits", variable |-> sym, size |-> size]
Gate(sym, q) == [qop |-> sym, args |-> <<q>>, returns |-> <<>>]
Measure(q, c) == [qop |-> "Measure", args |-> <<q>>, returns |-> <<c>>]
Assign(target, expr) == [cop |-> "=", args |-> <<expr>>, returns |-> <<target>>]
IfBlock(cond, branch) == [block |-> "if", condition |-> cond, true_branch |-> branch]

\* the register values are i64
Width == 64

\* the n low bits of x >= 0, least significant first
RECURSIVE Digits(_, _)
Digits(x, n) == IF n = 0 THEN <<>> ELSE <<x % 2>> \o Digits(x \div 2, n - 1)

Flip(b) == [i \in 1..Len(b) |-> 1 - b[i]]

\* the value of the bits b read as an unsigned number
RECURSIVE Unsigned(_)
Unsigned(b) == IF b = <<>> THEN 0 ELSE b[1] + 2 * Unsigned(Tail(b))

\* two's complement of x on Width bits, and back
ToBits(x) == IF x >= 0 THEN Digits(x, Width) ELSE Flip(Digits(-x - 1, Width))
FromBits(b) == IF b[Width] = 1 THEN -Unsigned(Flip(b)) - 1 ELSE Unsigned(b)

GetBit(x, idx) == ToBits(x)[idx + 1]
SetBit(x, idx, bit) == FromBits([ToBits(x) EXCEPT ![idx + 1] = bit])
Masked(x, size) == Unsigned(SubSeq(ToBits(x), 1, size))

\* ~ masked to a register of 8 bits
BitwiseNotMasked(x) == Masked(FromBits(Flip(ToBits(x))), 8)

\* ~ on the i64
BitwiseNot(x) == FromBits(Flip(ToBits(x)))

\* the value of an expression on the store env
RECURSIVE Eval(_, _)
Eval(e, env) ==
    IF e.t = "lit" THEN e.v
    ELSE IF e.t = "var" THEN env[e.sym]
    ELSE IF e.t = "bit" THEN GetBit(env[e.sym], e.idx)
    ELSE IF e.cop = "~" THEN BitwiseNot(Eval(e.args[1], env))
    ELSE IF e.cop = "==" THEN IF Eval(e.args[1], env) = Eval(e.args[2], env) THEN 1 ELSE 0
    ELSE 0

\* the store after the assignment of value to target
AssignTo(env, target, value) ==
    IF target.t = "bit"
        THEN [env EXCEPT ![target.sym] = SetBit(@, target.idx, value % 2)]
    ELSE [env EXCEPT ![target.sym] = value]

\* the bits an assignment to target sets
BitsOf(target) ==
    IF target.t = "bit" THEN {<<target.sym, target.idx>>}
    ELSE {<<target.sym, idx>> : idx \in 0..(Width - 1)}

\* format(value, "0{size}b") and int(s, 2)
RECURSIVE Binary(_)
Binary(x) == IF x < 2 THEN <<IF x = 0 THEN "0" ELSE "1">> ELSE Binary(x \div 2) \o Binary(x % 2)
Serialize(value, size) ==
    LET sign == IF value < 0 THEN <<"-">> ELSE <<>>
        mag == Binary(IF value < 0 THEN -value ELSE value)
        pad == size - Len(sign) - Len(mag)
    IN  sign \o [i \in 1..(IF pad > 0 THEN pad ELSE 0) |-> "0"] \o mag
RECURSIVE ParseDigits(_)
ParseDigits(s) ==
    IF s = <<>> THEN 0
    ELSE 2 * ParseDigits(SubSeq(s, 1, Len(s) - 1)) + (IF s[Len(s)] = "1" THEN 1 ELSE 0)
ParseInt(s) == IF s # <<>> /\ s[1] = "-" THEN -ParseDigits(Tail(s)) ELSE ParseDigits(s)

\* the op-streams
ClassicalControl ==
    <<QVarDefine("q", 2), CVarDefine("c", 2), CVarDefine("d", 1),
      Gate("H", Id("q", 0)),
      Measure(Id("q", 0), Bit("c", 0)),
      IfBlock(Cop2("==", Bit("c", 0), Lit(1)), <<Gate("X", Id("q", 1))>>),
      Measure(Id("q", 1), Bit("c", 1))>>
BasicOperations ==
    <<QVarDefine("q", 1), CVarDefine("c", 1),
      Gate("X", Id("q", 0)),
      Measure(Id("q", 0), Bit("c", 0))>>
UninitializedRegisters ==
    <<CVarDefine("a", 8), CVarDefine("r", 8),
      Assign(Bit("r", 0), Bit("a", 0))>>
NotFullRegister(a) ==
    <<CVarDefine("a", 8), CVarDefine("r", 8),
      Assign(Var("a"), Lit(a)),
      Assign(Var("r"), Cop1("~", Var("a")))>>
NotInputs == {0, 1, 2, 127, 255}
EnginePrograms ==
    {ClassicalControl, BasicOperations, UninitializedRegisters}
        \cup {NotFullRegister(a) : a \in NotInputs}

\* the declarations of an op-stream
CVarsOf(ops) == {ops[i] : i \in {j \in 1..Len(ops) : "data" \in DOMAIN ops[j] /\ ops[j].data = "cvar_define"}}
QVarsOf(ops) == {ops[i] : i \in {j \in 1..Len(ops) : "data" \in DOMAIN ops[j] /\ ops[j].data = "qvar_define"}}
CSyms(ops) == {v.variable : v \in CVarsOf(ops)}
SizeOf(ops, sym) == (CHOOSE v \in CVarsOf(ops) : v.variable = sym).size
Qubits(ops) == UNION {{Id(v.variable, i) : i \in 0..(v.size - 1)} : v \in QVarsOf(ops)}

\* the store and the backend of a new shot
ZeroStore(ops) == [sym \in CSyms(ops) |-> 0]
ResetSim(ops) == [q \in Qubits(ops) |-> "0"]

\* the engine after run() has read the declarations of the op-stream
InitEngine ==
    /\ GenOff
    /\ NoiseOff
    /\ SliceOff
    /\ phir \in EnginePrograms
    /\ shots \in 1..MaxEngineShots
    /\ estate = "Ready"
    /\ eshot = 0
    /\ todo = <<>>
    /\ cenv = ZeroStore(phir)
    /\ sim = ResetSim(phir)
    /\ results = [sym \in CSyms(phir) |-> <<>>]
    /\ written = {}

\* a shot that starts on the store of the shot before it
ShotReinitKeeping ==
    /\ estate = "Ready"
    /\ eshot < shots
    /\ estate' = "Running"
    /\ eshot' = eshot + 1
    /\ todo' = phir
    /\ sim' = ResetSim(phir)
    /\ written' = {}
    /\ UNCHANGED <<phir, shots, cenv, results, gen_vars, noise_vars, slice_vars>>

\* Ready -> Running: a new store, the backend reset
ShotReinit ==
    /\ estate = "Ready"
    /\ eshot < shots
    /\ estate' = "Running"
    /\ eshot' = eshot + 1
    /\ todo' = phir
    /\ cenv' = ZeroStore(phir)
    /\ sim' = ResetSim(phir)
    /\ written' = {}
    /\ UNCHANGED <<phir, shots, results, gen_vars, noise_vars, slice_vars>>

Running(kind) == estate = "Running" /\ todo # <<>> /\ kind \in DOMAIN Head(todo)

\* a declaration has been read before the first shot
ExecData ==
    /\ Running("data")
    /\ todo' = Tail(todo)
    /\ UNCHANGED <<phir, shots, estate, eshot, cenv, sim, results, written, gen_vars, noise_vars, slice_vars>>

\* the backend applies a gate
ApplyGate(sym, s) ==
    IF sym = "H" THEN (IF s = "0" THEN "+" ELSE IF s = "1" THEN "-" ELSE IF s = "+" THEN "0" ELSE "1")
    ELSE IF sym = "X" THEN (IF s = "0" THEN "1" ELSE IF s = "1" THEN "0" ELSE s)
    ELSE s

\* quantum op without a measurement return
ExecGate ==
    /\ Running("qop")
    /\ Head(todo).returns = <<>>
    /\ sim' = [sim EXCEPT ![Head(todo).args[1]] = ApplyGate(Head(todo).qop, @)]
    /\ todo' = Tail(todo)
    /\ UNCHANGED <<phir, shots, estate, eshot, cenv, results, written, gen_vars, noise_vars, slice_vars>>

\* the bits the backend can return for a qubit in state s
Outcomes(s) == IF s = "0" THEN {0} ELSE IF s = "1" THEN {1} ELSE {0, 1}

\* the measurement bit is not written into the store
StoreDropped(env, target, value) == env

\* the measurement bit is written into the store
Store(env, target, value) == AssignTo(env, target, value)

\* quantum op with a measurement return
ExecMeasure ==
    /\ Running("qop")
    /\ Head(todo).returns # <<>>
    /\ \E bit \in Outcomes(sim[Head(todo).args[1]]) :
          /\ sim' = [sim EXCEPT ![Head(todo).args[1]] = IF bit = 0 THEN "0" ELSE "1"]
          /\ cenv' = Store(cenv, Head(todo).returns[1], bit)
    /\ written' = written \cup BitsOf(Head(todo).returns[1])
    /\ todo' = Tail(todo)
    /\ UNCHANGED <<phir, shots, estate, eshot, results, gen_vars, noise_vars, slice_vars>>

\* classical op
ExecCop ==
    /\ Running("cop")
    /\ cenv' = AssignTo(cenv, Head(todo).returns[1], Eval(Head(todo).args[1], cenv))
    /\ written' = written \cup BitsOf(Head(todo).returns[1])
    /\ todo' = Tail(todo)
    /\ UNCHANGED <<phir, shots, estate, eshot, sim, results, gen_vars, noise_vars, slice_vars>>

\* conditional control op: the true_branch is interpreted in place
ExecIf ==
    /\ Running("block")
    /\ todo' = IF Eval(Head(todo).condition, cenv) # 0
                  THEN Head(todo).true_branch \o Tail(todo)
                  ELSE Tail(todo)
    /\ UNCHANGED <<phir, shots, estate, eshot, cenv, sim, results, written, gen_vars, noise_vars, slice_vars>>

\* Running -> Done: one outcome string per register joins the accumulator
EndShot ==
    /\ estate = "Running"
    /\ todo = <<>>
    /\ estate' = "Done"
    /\ results' = [sym \in DOMAIN results |->
                      Append(results[sym], Serialize(cenv[sym], SizeOf(phir, sym)))]
    /\ UNCHANGED <<phir, shots, eshot, todo, cenv, sim, written, gen_vars, noise_vars, slice_vars>>

\* Done -> Ready, or the run is over
NextShot ==
    /\ estate = "Done"
    /\ estate' = IF eshot < shots THEN "Ready" ELSE "Finished"
    /\ UNCHANGED <<phir, shots, eshot, todo, cenv, sim, results, written, gen_vars, noise_vars, slice_vars>>

NextEngine ==
    \/ ShotReinit
    \/ ExecData
    \/ ExecGate
    \/ ExecMeasure
    \/ ExecCop
    \/ ExecIf
    \/ EndShot
    \/ NextShot

SpecEngine == InitEngine /\ [][NextEngine]_vars

\* ------------------------------------------------------------------------
\* RegSlice (pecos.slr.vars): construction, iteration, len and +
\* ------------------------------------------------------------------------
\* an optional integer: None, or the integer v
Omitted == [none |-> TRUE, v |-> 0]
Some(v) == [none |-> FALSE, v |-> v]

\* the argument indices of RegSlice: slice(start, stop, step) or a list
Slice(start, stop, step) == [form |-> "slice", start |-> start, stop |-> stop, step |-> step, list |-> <<>>]
IndexList(list) == [form |-> "list", start |-> Omitted, stop |-> Omitted, step |-> Omitted, list |-> list]

\* the arguments tried on a register of MaxSize elements or fewer
Ends == {Omitted} \cup {Some(v) : v \in (-(MaxSize + 1))..(MaxSize + 1)}
Steps == {Omitted} \cup {Some(v) : v \in {-2, -1, 1, 2}}
SliceArgs ==
    {Slice(start, stop, step) : start \in Ends, stop \in Ends, step \in Steps}
        \cup {IndexList(list) : list \in SeqsUpTo((-1)..MaxSize, MaxList)}

\* start, stop and step as __init__, __iter__ and get_indices compute them
StartOf(size, ind) ==
    IF ind.start.none THEN 0
    ELSE IF ind.start.v < 0 THEN size + ind.start.v
    ELSE ind.start.v
StopOf(size, ind) ==
    IF ind.stop.none THEN size
    ELSE IF ind.stop.v < 0 THEN size + ind.stop.v
    ELSE ind.stop.v
StepOf(ind) == IF ind.step.none \/ ind.step.v = 0 THEN 1 ELSE ind.step.v

\* list(range(start, stop, step)), step # 0
RECURSIVE Range(_, _, _)
Range(start, stop, step) ==
    IF (step > 0 /\ start >= stop) \/ (step < 0 /\ start <= stop) THEN <<>>
    ELSE <<start>> \o Range(start + step, stop, step)

\* the indices the slice visits: get_indices of __add__, the loops of __iter__
GetIndices(size, ind) ==
    IF ind.form = "slice" THEN Range(StartOf(size, ind), StopOf(size, ind), StepOf(ind))
    ELSE ind.list

\* RegSlice.__init__: the exception it raises, "" if none
RegSliceInit(size, ind) ==
    IF ind.form = "slice"
        THEN IF StartOf(size, ind) < 0 \/ StartOf(size, ind) > size
                THEN "IndexError: Slice start index out of bounds"
             ELSE IF StopOf(size, ind) < 0 \/ StopOf(size, ind) > size
                THEN "IndexError: Index is out of bounds for register"
             ELSE ""
    ELSE IF \E k \in 1..Len(ind.list) : ind.list[k] >= size \/ ind.list[k] < 0
        THEN "IndexError: Index out of bounds for register"
    ELSE ""

\* Reg.__getitem__(i) is self.elems[i]: a negative i counts from the end
RECURSIVE Elems(_, _)
Elems(size, idxs) ==
    IF idxs = <<>> THEN [err |-> "", elems |-> <<>>]
    ELSE IF Head(idxs) >= size \/ Head(idxs) < -size
        THEN [err |-> "IndexError: list index out of range", elems |-> <<>>]
    ELSE LET rest == Elems(size, Tail(idxs))
         IN  [err |-> rest.err,
              elems |-> <<IF Head(idxs) < 0 THEN size + Head(idxs) ELSE Head(idxs)>> \o rest.elems]

\* list(s) for a slice s: the index of each element it yields, and the
\* exception that ends the iteration
Iter(size, ind) == Elems(size, GetIndices(size, ind))

\* slice(start, stop, step).indices(size) of Python, step # 0
SliceIndices(size, ind) ==
    LET step == IF ind.step.none THEN 1 ELSE ind.step.v
        lower == IF step < 0 THEN -1 ELSE 0
        upper == IF step < 0 THEN size - 1 ELSE size
        Clamp(b, dflt) ==
            IF b.none THEN dflt
            ELSE IF b.v < 0 THEN (IF b.v + size < lower THEN lower ELSE b.v + size)
            ELSE IF b.v > upper THEN upper ELSE b.v
    IN  [start |-> Clamp(ind.start, IF step < 0 THEN upper ELSE lower),
         stop |-> Clamp(ind.stop, IF step < 0 THEN lower ELSE upper),
         step |-> step]

\* a // b of Python
FloorDiv(a, b) == IF b > 0 THEN a \div b ELSE (-a) \div (-b)

\* _calculate_size, which is __len__
CalculateSize(size, ind) ==
    IF ind.form = "slice"
        THEN LET i == SliceIndices(size, ind)
                 n == FloorDiv(i.stop - i.start + (i.step - 1), i.step)
             IN  IF n > 0 THEN n ELSE 0
    ELSE Len(ind.list)

\* __getitem__(idx) for 0 <= idx: the exception, or the index of the element
\* it returns. A list is indexed as Python indexes it; reg[i] is as in Elems.
GetItem(size, ind, idx) ==
    IF ind.form = "list" /\ idx >= Len(ind.list)
        THEN [err |-> "IndexError: list index out of range", elem |-> 0]
    ELSE LET real_idx == IF ind.form = "slice" THEN StartOf(size, ind) + (StepOf(ind) * idx)
                         ELSE ind.list[idx + 1]
         IN  IF real_idx >= size \/ real_idx < -size
                THEN [err |-> "IndexError: list index out of range", elem |-> 0]
             ELSE [err |-> "", elem |-> IF real_idx < 0 THEN size + real_idx ELSE real_idx]

\* __add__: the exception, or the indices of the slice it returns
SliceAdd(size, ind, same_reg, other_ind) ==
    IF ~same_reg
        THEN [err |-> "ValueError: Can only combine slices from the same register", slice |-> IndexList(<<>>)]
    ELSE LET combined_indices == GetIndices(size, ind) \o GetIndices(size, other_ind)
         IN  [err |-> RegSliceInit(size, IndexList(combined_indices)),
              slice |-> IndexList(combined_indices)]

\* the right operands of +: slices over the same or another register of
\* the same size
Operands(size) ==
    {IndexList(<<>>), IndexList(<<0>>), IndexList(<<size - 1, 0>>),
     Slice(Omitted, Omitted, Omitted), Slice(Some(0), Some(1), Omitted),
     Slice(Some(size - 1), Some(0), Some(-1))}

\* a register and the argument of reg[...]
InitSlices ==
    /\ GenOff
    /\ NoiseOff
    /\ EngineOff
    /\ reg_size \in 1..MaxSize
    /\ indices \in SliceArgs
    /\ spc = "new"
    /\ serr = ""
    /\ iterated = [err |-> "", elems |-> <<>>]
    /\ other = [same_reg |-> TRUE, indices |-> IndexList(<<>>)]
    /\ combined = [err |-> "", slice |-> IndexList(<<>>)]
    /\ items = <<>>

\* reg[indices]
Construct ==
    /\ spc = "new"
    /\ serr' = RegSliceInit(reg_size, indices)
    /\ spc' = IF RegSliceInit(reg_size, indices) = "" THEN "built" ELSE "raised"
    /\ UNCHANGED <<reg_size, indices, iterated, other, combined, items, gen_vars, noise_vars, engine_vars>>

\* list(s)
Iterate ==
    /\ spc = "built"
    /\ iterated' = Iter(reg_size, indices)
    /\ spc' = "iterated"
    /\ UNCHANGED <<reg_size, indices, serr, other, combined, items, gen_vars, noise_vars, engine_vars>>

\* s + t for a slice t that has been constructed
AddSlices ==
    /\ spc = "built"
    /\ \E same_reg \in BOOLEAN, t \in Operands(reg_size) :
          /\ RegSliceInit(reg_size, t) = ""
          /\ other' = [same_reg |-> same_reg, indices |-> t]
          /\ combined' = SliceAdd(reg_size, indices, same_reg, t)
    /\ spc' = "added"
    /\ UNCHANGED <<reg_size, indices, serr, iterated, items, gen_vars, noise_vars, engine_vars>>

\* [s[k] for k in range(len(s))]
Index ==
    /\ spc = "built"
    /\ items' = [k \in 1..CalculateSize(reg_size, indices) |-> GetItem(reg_size, indices, k - 1)]
    /\ spc' = "indexed"
    /\ UNCHANGED <<reg_size, indices, serr, iterated, other, combined, gen_vars, noise_vars, engine_vars>>

NextSlices ==
    \/ Construct
    \/ Iterate
    \/ AddSlices
    \/ Index

SpecSlices == InitSlices /\ [][NextSlices]_vars

\* ------------------------------------------------------------------------
\* Properties
\* ------------------------------------------------------------------------
IsDecl(r) == "data" \in DOMAIN r
IsQop(r) == "qop" \in DOMAIN r
IsIfRecord(r) == "block" \in DOMAIN r /\ r.block = "if"
IsSequenceRecord(r) == "block" \in DOMAIN r /\ r.block = "sequence"

\* the variables a Main block declares, in the order of the tree
DeclaredVars(block) == block.vars \o VarsOfOps(block.ops)

\* the records of the stream after the declarations
Records == SelectSeq(output, LAMBDA r : ~IsDecl(r))

\* C1: compiling a root Main block emits one declaration record per declared
\* variable, before any other record and in declaration order: qvar_define
\* for a QReg, cvar_define for a CReg, with the variable's name and size.
C1_DeclarationsFirstInOrder ==
    prog.type = "Main" =>
        /\ \A i, j \in 1..Len(output) : (i < j /\ IsDecl(output[j])) => IsDecl(output[i])
        /\ pc = "done" =>
              LET dv == DeclaredVars(prog)
              IN  /\ Len(SelectSeq(output, IsDecl)) = Len(dv)
                  /\ \A i \in 1..Len(dv) :
                        /\ output[i].data = (IF dv[i].type = "QReg" THEN "qvar_define" ELSE "cvar_define")
                        /\ output[i].variable = dv[i].sym
                        /\ output[i].size = dv[i].size

\* a Main with a CReg then a QReg and one statement has been compiled
C1_Witness ==
    /\ pc = "done"
    /\ prog.type = "Main"
    /\ Len(prog.vars) = 2
    /\ prog.vars[1].type = "CReg"
    /\ prog.vars[2].type = "QReg"
    /\ Len(output) = 3
    /\ ~IsDecl(output[3])

\* every statement of ops is a gate or a nested block of type kind
OnlyGatesAnd(kind, ops) == \A i \in 1..Len(ops) : ops[i].type \in {"QGate", kind}

\* the stream of ops when every nested Repeat and Block is expanded in
\* place: a Repeat as cond copies of its lowered body, a Block as its
\* lowered body
RECURSIVE InPlace(_, _)
InPlace(g, ops) ==
    IF ops = <<>> THEN <<>>
    ELSE LET op == Head(ops)
         IN  (IF op.type = "Repeat"
                 THEN Copies(op.cond.value, ProcessBlockOps(g, op.ops).ops)
              ELSE IF op.type = "Block"
                 THEN ProcessBlockOps(g, op.ops).ops
              ELSE ProcessBlockOps(g, <<op>>).ops)
             \o InPlace(g, Tail(ops))

\* C2: Repeat(n).block(body) compiles to exactly n consecutive copies of the
\* lowered body, as records of the stream at the position of the Repeat, with
\* no loop record and no wrapper record, both when the Repeat is the block
\* compiled and when it is a statement of a Main block.
C2_RepeatIsCopies ==
    pc = "done" =>
        /\ prog.type = "Repeat" =>
              output = Copies(prog.cond.value, ProcessBlockOps(impl, prog.ops).ops)
        /\ (prog.type = "Main" /\ OnlyGatesAnd("Repeat", prog.ops)) =>
              Records = InPlace(impl, prog.ops)

\* the records of a record list that are not "sequence" records
NotSequence(recs) == SelectSeq(recs, LAMBDA r : ~IsSequenceRecord(r))

\* the gate statements and the If statements of a body
GatesAndIfs(body) == SelectSeq(body, LAMBDA s : s.type \in {"QGate", "If"})

\* tb holds, in the order of body, one qop record per gate statement and one
\* "if" record per If statement, each If lowered the same way
RECURSIVE LowersTo(_, _)
LowersTo(tb, body) ==
    LET recs == NotSequence(tb)
        stmts == GatesAndIfs(body)
    IN  /\ Len(recs) = Len(stmts)
        /\ \A i \in 1..Len(stmts) :
              IF stmts[i].type = "QGate"
                 THEN IsQop(recs[i]) /\ recs[i].qop = stmts[i].sym
                 ELSE /\ IsIfRecord(recs[i])
                      /\ recs[i].condition.cop = stmts[i].cond.symbol
                      /\ recs[i].condition.args[1] = Id(stmts[i].cond.left.reg, stmts[i].cond.left.index)
                      /\ LowersTo(recs[i].true_branch, stmts[i].ops)

RECURSIVE QopNames(_)
QopNames(recs) ==
    IF recs = <<>> THEN {}
    ELSE LET r == Head(recs)
         IN  (IF IsQop(r) THEN {r.qop}
              ELSE IF IsIfRecord(r) THEN QopNames(r.true_branch)
              ELSE IF IsSequenceRecord(r) THEN QopNames(r.ops)
              ELSE {})
             \cup QopNames(Tail(recs))

\* C4: a gate application with qsize > 2 is rejected in every path that
\* lowers gates: no stream ever holds a record for such a gate.
C4_WideGateRejected ==
    \A g \in Leaves : g.qsize > 2 => g.sym \notin QopNames(output)

\* C5: compiling the same program tree twice yields identical op-record
\* sequences.
C5_SameStreamTwice ==
    (run = 2 /\ pc = "done") => GetOutput = first_ops

\* C6: compiling a Main block that declares a variable of size <= 0 raises
\* "Register size must be positive", and when the error is raised no record
\* has been appended to the stream, wherever the variable is declared.
C6_NothingBeforeSizeError ==
    (prog.type = "Main" /\ \E i \in 1..Len(DeclaredVars(prog)) : DeclaredVars(prog)[i].size <= 0) =>
        /\ pc # "done"
        /\ pc = "error" =>
              /\ err = "TypeError: Register size must be positive"
              /\ output = <<>>

\* C7: when a compilation fails, get_output() holds none of the records of
\* the failed compilation.
C7_NoPartialCommit ==
    pc = "error" => GetOutput = <<>>

\* C8: a nested plain Block is expanded in place: its lowered records are
\* records of the enclosing list at the position of the Block, with no
\* wrapper record.
C8_BlockInPlace ==
    (pc = "done" /\ prog.type \in {"Main", "Block"} /\ OnlyGatesAnd("Block", prog.ops)) =>
        Records = InPlace(impl, prog.ops)

\* C9: an If with an Else branch that compiles leaves a second "if" record
\* that holds the lowered Else body; its body is never dropped.
C9_ElseNotDropped ==
    (pc = "done" /\ prog.type = "If" /\ prog.else_block # <<>>) =>
        \E i \in 2..Len(output) :
            /\ IsIfRecord(output[i])
            /\ output[i].true_branch = ProcessBlockOps(impl, prog.else_block).ops

\* the names process handles: the noiseless allow-list and the names of the
\* cases of the match statement
Classified(name) ==
    \/ eparams.has_noiseless_gates /\ name \in eparams.noiseless_gates
    \/ name \in {"init |0>", "Init", "Init +Z", "measure Z", "Measure", "Measure +Z", "Idle", "Sleep"}
    \/ name \in one_qubits \cup two_qubits

\* C10: process handles each op by exactly one case; an op whose name is in
\* no class and not in noiseless_gates makes process raise, and no op of
\* qops with such a name is ever in the list process builds or returns.
C10_ProcessTotal ==
    /\ Len(branches) = (IF npc = "raised" THEN qi ELSE qi - 1)
    /\ \A i \in 1..Len(branches) : (branches[i] = "unhandled") <=> ~Classified(qops[i].name)
    /\ (\E i \in 1..Len(branches) : ~Classified(qops[i].name)) => npc = "raised" /\ returned = <<>>
    /\ npc = "returned" => \A i \in 1..Len(qops) : Classified(qops[i].name)
    /\ \A i \in 1..Len(noisy_ops) : noisy_ops[i].src = "qops" => Classified(noisy_ops[i].name)
    /\ \A i \in 1..Len(returned) : returned[i].src = "qops" => Classified(returned[i].name)

\* process raised at an op named in no class, after a noiseless op of the
\* allow-list had been copied to noisy_ops
C10_Witness ==
    /\ npc = "raised"
    /\ Len(qops) = 2
    /\ qops[1].name = "X"
    /\ qops[2].name = "Foo"
    /\ branches = <<"noiseless", "unhandled">>
    /\ noisy_ops = <<qops[1]>>
    /\ returned = <<>>

\* C11: for a model initialised with reset_leakage = True, every qubit in
\* leaked_qubits during a shot was put there by leak() in that shot;
\* leaked_qubits is empty when a shot starts.
C11_LeakageWithinShot ==
    (reset_leakage /\ npc \in {"loop", "returned"}) =>
        /\ leaked_qubits \subseteq added
        /\ (npc = "loop" /\ qi = 1) => leaked_qubits = {}

\* C12: while a shot runs, no step of process() removes a qubit from
\* leaked_qubits.
C12_LeakageMonotone ==
    [][npc = "loop" => leaked_qubits \subseteq leaked_qubits']_vars

\* the value of key that init() starts from
Raw(key) == IF key \in DOMAIN error_params THEN error_params[key] ELSE DefaultOf(key)

\* C13: after any number k >= 1 of init() calls every effective parameter is
\* the caller's raw value times its scale multipliers times the fixed factor
\* (p1 * p1_scale * scale * 3/2, p2 * p2_scale * scale * 5/4, p_init *
\* init_scale * scale, p_init_leak_ratio * leakage_scale), and error_params
\* is never changed.
C13_ScaledOnce ==
    /\ [](inits >= 1 /\ nerr = "" =>
            /\ rates["p1"] = Q(Raw("p1").n * Raw("p1_scale").n * Raw("scale").n * 3,
                               Raw("p1").d * Raw("p1_scale").d * Raw("scale").d * 2)
            /\ rates["p2"] = Q(Raw("p2").n * Raw("p2_scale").n * Raw("scale").n * 5,
                               Raw("p2").d * Raw("p2_scale").d * Raw("scale").d * 4)
            /\ rates["p_init"] = Q(Raw("p_init").n * Raw("init_scale").n * Raw("scale").n,
                                   Raw("p_init").d * Raw("init_scale").d * Raw("scale").d)
            /\ rates["p_init_leak_ratio"] = Q(Raw("p_init_leak_ratio").n * Raw("leakage_scale").n,
                                              Raw("p_init_leak_ratio").d * Raw("leakage_scale").d))
    /\ [][error_params' = error_params]_vars

\* init() has run three times on p1 = 1/100, p1_scale = 3, scale = 2: the
\* effective p1 is 9/100
C13_Witness ==
    /\ inits = 3
    /\ error_params = FullParams
    /\ rates["p1"] = Q(9, 100)
    /\ rates["p1"] # error_params["p1"]

\* C14: once init() has returned, process() never fails on a classified op
\* because a parameter key is absent.
C14_NoMissingKeyInProcess ==
    nerr \notin {"KeyError: p_init", "KeyError: p_init_leak_ratio", "KeyError: leakage_scale"}


\* the outcome strings the run has recorded for register sym
OutcomesOf(sym) == {results[sym][k] : k \in 1..Len(results[sym])}

\* C15: a bit written by a measurement is in the store when the next op
\* runs, the true_branch of an if record is entered if and only if its
\* condition is truthy on the store the preceding ops of the shot have left,
\* and the op-stream  H q0; measure q0 -> c0; if (c0 == 1) X q1;
\* measure q1 -> c1  never records an outcome with c0 = 0 and c1 = 1.
C15_FeedbackImmediate ==
    /\ [][(Running("qop") /\ Head(todo).returns # <<>>) =>
             (/\ sim'[Head(todo).args[1]] \in {"0", "1"}
              /\ GetBit(cenv'[Head(todo).returns[1].sym], Head(todo).returns[1].idx) =
                    (IF sim'[Head(todo).args[1]] = "1" THEN 1 ELSE 0))]_vars
    /\ [][Running("block") =>
             ((todo' = Head(todo).true_branch \o Tail(todo))
                 <=> Eval(Head(todo).condition, cenv) # 0)]_vars
    /\ [](phir = ClassicalControl =>
            (/\ <<"1", "0">> \notin OutcomesOf("c")
             /\ (GetBit(cenv["c"], 1) = 1 => GetBit(cenv["c"], 0) = 1)))

\* both branches of the measurement have been taken in one run
C15_Witness ==
    /\ phir = ClassicalControl
    /\ estate = "Finished"
    /\ results["c"] = <<<<"1", "1">>, <<"0", "0">>>>

\* C16: a bit no op of the running shot has assigned is 0 (so every register
\* is 0 when a shot starts, a read before any assignment yields 0, and no
\* value of an earlier shot is visible), and the accumulator holds one
\* outcome per register for each shot that has ended.
C16_FreshStorePerShot ==
    estate # "off" =>
        /\ \A sym \in DOMAIN cenv : \A idx \in 0..(Width - 1) :
              <<sym, idx>> \notin written => GetBit(cenv[sym], idx) = 0
        /\ (estate = "Running" /\ todo = phir) => cenv = ZeroStore(phir)
        /\ (phir = UninitializedRegisters /\ estate \in {"Done", "Finished"}) =>
              ParseInt(results["r"][eshot]) = 0
        /\ \A sym \in DOMAIN results :
              Len(results[sym]) = (IF estate \in {"Done", "Finished"} THEN eshot ELSE
                                  IF eshot = 0 THEN 0 ELSE
                                  IF estate = "Ready" THEN eshot ELSE eshot - 1)

\* the second shot starts after a shot that has left c = 11
C16_Witness ==
    /\ phir = ClassicalControl
    /\ eshot = 2
    /\ estate = "Running"
    /\ todo = phir
    /\ results["c"] = <<<<"1", "1">>>>
    /\ cenv["c"] = 0

\* C17: r = ~a leaves the two's complement of a on 64 bits in r, which is
\* -a - 1 and not the complement on the 8 bits of the register: a = 1
\* gives r == -2, and r masked to 8 bits is 254.
C17_NotIsSigned64 ==
    \A a \in NotInputs :
        (phir = NotFullRegister(a) /\ estate \in {"Done", "Finished"}) =>
            /\ ParseInt(results["r"][eshot]) = -a - 1
            /\ Masked(ParseInt(results["r"][eshot]), 8) = 255 - a
            /\ a = 1 => /\ ParseInt(results["r"][eshot]) = -2
                        /\ Masked(ParseInt(results["r"][eshot]), 8) = 254

C17_Witness ==
    /\ phir = NotFullRegister(1)
    /\ estate = "Finished"
    /\ results["r"][1] = <<"-", "0", "0", "0", "0", "0", "1", "0">>
    /\ results["a"][1] = <<"0", "0", "0", "0", "0", "0", "0", "1">>

\* C18: a slice that has been constructed visits only indices in
\* [0, reg.size) when it is iterated, and a range or an index list that
\* denotes an index outside [0, reg.size) raises IndexError at construction.
C18_SliceInBounds ==
    LET visits == GetIndices(reg_size, indices)
        outside == {k \in 1..Len(visits) : visits[k] < 0 \/ visits[k] >= reg_size}
    IN  /\ spc \in {"built", "iterated", "added"} => outside = {}
        /\ (spc \notin {"off", "new"} /\ outside # {}) =>
              (spc = "raised" /\ serr \in {"IndexError: Slice start index out of bounds",
                                            "IndexError: Index is out of bounds for register",
                                            "IndexError: Index out of bounds for register"})
        /\ spc = "iterated" => iterated.err = ""

\* C19: s1 + s2 over one register is the slice of the elements of s1
\* followed by those of s2, of length len(s1) + len(s2), for range-built and
\* list-built operands alike; over two registers it raises ValueError; the
\* operands stay as they were.
C19_Concatenation ==
    /\ [](spc = "added" =>
            IF other.same_reg
                THEN /\ combined.err = ""
                     /\ Iter(reg_size, combined.slice).elems =
                            Iter(reg_size, indices).elems \o Iter(reg_size, other.indices).elems
                     /\ CalculateSize(reg_size, combined.slice) =
                            CalculateSize(reg_size, indices) + CalculateSize(reg_size, other.indices)
                ELSE combined.err = "ValueError: Can only combine slices from the same register")
    /\ [][spc' = "added" => indices' = indices]_vars

\* C20: iterating an accepted reg[start:stop:step] yields reg[i] for the
\* indices i of range(*slice(start, stop, step).indices(reg.size)), in that
\* order, whatever of start, stop and step is omitted or negative.
C20_PythonSliceSemantics ==
    (spc = "iterated" /\ indices.form = "slice") =>
        LET i == SliceIndices(reg_size, indices)
        IN  /\ iterated.err = ""
            /\ iterated.elems = Range(i.start, i.stop, i.step)
\* ---- process: the two fault channels of a two-qubit gate, program order

\* the ops of a fault function's result, none for None
OpsOf(v) == IF v.none THEN <<>> ELSE v.ops

\* the part of noisy_ops the i-th round of the loop has written
Segment(i) == SubSeq(noisy_ops, draws[i].start, draws[i].end)

\* C22: with p2_mem set, the output for a two-qubit gate is the gate, then the
\* faults of the primary p2 channel, then the faults of the p2_mem channel;
\* the faults of neither channel are discarded.
C22_BothChannelsKept ==
    \A i \in 1..Len(draws) :
        (branches[i] = "two_qubit" /\ eparams.p2_mem)
            => Segment(i) = <<qops[i]>> \o OpsOf(draws[i].after) \o OpsOf(draws[i].mem)

\* NoErrorModel.process
NoErrorProcess(ops) == ops

\* the segments of the first n rounds, one after the other
RECURSIVE Segments(_)
Segments(n) == IF n = 0 THEN <<>> ELSE Segments(n - 1) \o Segment(n)

\* the segment of a round, from what the fault functions returned: the op or
\* its replacement, then the faults that are inserted after it
SegmentOf(i) ==
    (IF draws[i].erroneous.none THEN <<qops[i]>> ELSE draws[i].erroneous.ops)
    \o (IF branches[i] = "two_qubit" /\ eparams.p2_mem /\ Truthy(draws[i].after)
           THEN <<>>
           ELSE OpsOf(draws[i].after))

\* C23: process keeps the order of the program: the output is, in input order,
\* one segment per op, the op or its replacement followed by the faults
\* inserted after it (nothing is inserted before it); the segment of an op of
\* noiseless_gates is that op alone; NoErrorModel.process returns its input.
C23_OrderPreserved ==
    /\ Len(draws) = Len(branches) \/ (npc = "raised" /\ Len(draws) = Len(branches) - 1)
    /\ noisy_ops = Segments(Len(draws))
    /\ \A i \in 1..Len(draws) :
          /\ draws[i].start = (IF i = 1 THEN 1 ELSE draws[i - 1].end + 1)
          /\ Segment(i) = SegmentOf(i)
          /\ branches[i] = "noiseless" => Segment(i) = <<qops[i]>>
    /\ npc = "returned" => (returned = noisy_ops /\ Len(draws) = Len(qops))
    /\ NoErrorProcess(qops) = qops

\* two ops have been processed, the first with a fault after it, and the
\* second was a noiseless gate
C23_Witness ==
    /\ npc = "returned"
    /\ Len(qops) = 2
    /\ branches[2] = "noiseless"
    /\ Len(Segment(1)) >= 2
    /\ returned = Segment(1) \o <<qops[2]>>


\* ---- one generator, several compilations

\* the stream of a PHIRGenerator constructed for p once generate_block(p) has
\* returned
FreshStream(g, p) ==
    IF p.type = "Main"
       THEN VarsDefs(p.vars).ops \o VarsDefs(VarsOfOps(p.ops)).ops \o ProcessBlockOps(g, p.ops).ops
    ELSE IF p.type = "If" THEN ProcessIfBlock(g, p).ops
    ELSE IF p.type = "Repeat" THEN Copies(p.cond.value, ProcessBlockOps(g, p.ops).ops)
    ELSE ProcessBlockOps(g, p.ops).ops

\* C27: a PHIRGenerator does not accumulate across compilations: after P1 and
\* then P2 have been compiled on one instance, the stream holds the records of
\* P2 only, the stream a new generator produces for P2 (as the stream of the
\* first compilation is the one of a new generator).
C27_NoAccumulation ==
    pc = "done" => GetOutput = FreshStream(impl, prog)

\* ---- sibling nested blocks

\* every statement of ops is a plain Block whose body is not empty
OnlyPlainBlocks(ops) ==
    /\ ops # <<>>
    /\ \A i \in 1..Len(ops) : ops[i].type = "Block" /\ ops[i].ops # <<>>

\* C28: when a block holds several nested plain blocks B1, B2, ..., the record
\* of each Bi holds exactly the lowered ops of Bi, so lowering a later sibling
\* changes no earlier record; in process_block_ops as in _process_block_ops.
C28_SiblingRecords ==
    (pc = "done" /\ prog.type \in {"Main", "Block"} /\ OnlyPlainBlocks(prog.ops)) =>
        Records = [i \in 1..Len(prog.ops) |->
                      [block |-> "sequence", ops |-> ProcessBlockOps(impl, prog.ops[i].ops).ops]]

\* ---- RegSlice: len, iteration and indexing

\* C29: for every slice s that can be constructed, len(s) is the number of
\* elements iterating over s yields, and s[k] is the k-th element yielded for
\* 0 <= k < len(s); for negative start, stop and step as well.
C29_LenIterGetItemAgree ==
    spc = "indexed" =>
        LET yielded == Iter(reg_size, indices)
        IN  /\ yielded.err = ""
            /\ Len(items) = Len(yielded.elems)
            /\ \A k \in 1..Len(items) : items[k] = [err |-> "", elem |-> yielded.elems[k]]

\* ---- the records of one statement

\* the statement of a program of one statement
TheStatement == prog.ops[1]

\* a Main or Block of one statement has been compiled
OneLowered ==
    /\ pc = "done"
    /\ prog.type \in {"Main", "Block"}
    /\ Len(prog.ops) = 1

\* the registers of the programs, by symbol
RegisterSize(sym) ==
    IF sym = "q" THEN Rq.size
    ELSE IF sym = "c" THEN Rc.size
    ELSE IF sym = "d" THEN Rd.size
    ELSE IF sym = "p" THEN Rp.size
    ELSE Rr.size

\* an argument is a register element
IsElem(x) == "reg" \in DOMAIN x
\* an argument is a whole register
IsRegister(x) == "reg" \notin DOMAIN x /\ "size" \in DOMAIN x

\* one id per qubit (bit) the arguments cover: an element is one id, a
\* register of size n is the ids of its n elements
RECURSIVE CoveredIds(_)
CoveredIds(xs) ==
    IF xs = <<>> THEN <<>>
    ELSE (IF IsElem(Head(xs)) THEN <<Id(Head(xs).reg, Head(xs).index)>>
          ELSE [i \in 1..Head(xs).size |-> Id(Head(xs).sym, i - 1)])
         \o CoveredIds(Tail(xs))

\* the ids a quantum or barrier record holds
IdsOf(rec) ==
    IF "meta" \in DOMAIN rec THEN {rec.args[i] : i \in 1..Len(rec.args)}
    ELSE IF TheStatement.qsize = 2
        THEN {rec.args[i].q1 : i \in 1..Len(rec.args)} \cup {rec.args[i].q2 : i \in 1..Len(rec.args)}
    ELSE {rec.args[i] : i \in 1..Len(rec.args)}
            \cup (IF "returns" \in DOMAIN rec THEN {rec.returns[i] : i \in 1..Len(rec.returns)} ELSE {})

\* the arguments of the statement that are registers and that the record
\* refers to by a single id
WholeReferences(st) ==
    LET args == IF st.type = "Barrier" THEN st.qregs
                ELSE IF "cout" \in DOMAIN st THEN st.cout
                ELSE <<>>
    IN  {args[i] : i \in {j \in 1..Len(args) : IsRegister(args[j]) /\ args[j].type # "QReg"}}

\* C21: every qubit and bit id of an emitted record is [register_symbol,
\* index] with 0 <= index < size of the register, and a whole register is
\* referred to as [symbol, 0] only when its size is 1.
C21_IdsWellFormed ==
    (OneLowered /\ TheStatement.type \in {"QGate", "Barrier"}) =>
        /\ \A id \in IdsOf(Records[1]) : 0 <= id.index /\ id.index < RegisterSize(id.reg)
        /\ \A r \in WholeReferences(TheStatement) :
              Id(r.sym, 0) \in IdsOf(Records[1]) => r.size = 1

\* the lowering the structure of an expression determines
RECURSIVE Lowered(_)
Lowered(expr) ==
    IF IsInt(expr) THEN expr.value
    ELSE IF IsElem(expr) THEN Id(expr.reg, expr.index)
    ELSE IF IsRegister(expr) THEN expr.sym
    ELSE IF expr.type = "SET"
        THEN [cop |-> "=", args |-> <<Lowered(expr.right)>>, returns |-> <<Lowered(expr.left)>>]
    ELSE IF expr.type = "NOT" THEN [cop |-> "~", args |-> <<Lowered(expr.value)>>]
    ELSE [cop |-> IF expr.type = "AND" THEN "&" ELSE "|",
          args |-> <<Lowered(expr.left), Lowered(expr.right)>>]

\* C24: the lowering of a classical expression keeps its structure to any
\* depth: an int is itself, an element is [reg, index], a register is its
\* symbol, a unary operation is {cop, args: [operand]}, a binary operation is
\* {cop, args: [left, right]}, an assignment is {cop: "=", args: [rhs],
\* returns: [lhs]}; a & b & c is & over (& over a, b) and c.
C24_StructurePreserved ==
    /\ TheStatement.type \in ClassicalOps => pc # "error"
    /\ (OneLowered /\ TheStatement.type \in ClassicalOps) => Records = <<Lowered(TheStatement)>>

\* (a & b) & c and an assignment of an operation over an operation have been
\* lowered
C24_Witness ==
    /\ OneLowered
    /\ \/ /\ TheStatement.type = "AND"
          /\ "left" \in DOMAIN TheStatement.left
          /\ TheStatement.left.type = "AND"
          /\ Records[1].cop = "&"
          /\ Records[1].args[1].cop = "&"
          /\ Len(Records[1].args) = 2
       \/ /\ TheStatement.type = "SET"
          /\ TheStatement.right \in Operations2
          /\ Len(Records[1].returns) = 1

\* C25: a Barrier lowers to one record {meta: "barrier", args} with one id per
\* qubit covered, in argument order: one id for a qubit, n ids for a whole
\* array (QReg or QubitArray) of size n.
C25_BarrierCoversQubits ==
    (OneLowered /\ TheStatement.type = "Barrier") =>
        Records = <<[meta |-> "barrier", args |-> CoveredIds(TheStatement.qregs)]>>

\* the shapes of the arguments of a two-qubit gate
IsFlatPair(qargs) == Len(qargs) = 2 /\ \A i \in 1..2 : IsElem(qargs[i])
IsTupleList(qargs) ==
    /\ qargs # <<>>
    /\ \A i \in 1..Len(qargs) : "tuple" \in DOMAIN qargs[i] /\ Len(qargs[i].tuple) = 2

\* C26: for a gate of arity 2, a flat pair lowers to the single entry
\* [id(q1), id(q2)], a list of 2-tuples to one entry per tuple, and every
\* other shape of the arguments raises an error.
C26_TwoQubitShapes ==
    (TheStatement.type = "QGate" /\ TheStatement.qsize = 2) =>
        LET qargs == TheStatement.qargs
        IN  IF IsFlatPair(qargs)
               THEN /\ pc # "error"
                    /\ OneLowered =>
                          Records = <<[qop |-> TheStatement.sym,
                                       args |-> <<[q1 |-> Id(qargs[1].reg, qargs[1].index),
                                                   q2 |-> Id(qargs[2].reg, qargs[2].index)]>>]>>
            ELSE IF IsTupleList(qargs)
               THEN /\ pc # "error"
                    /\ OneLowered =>
                          Records = <<[qop |-> TheStatement.sym,
                                       args |-> [i \in 1..Len(qargs) |->
                                                    [q1 |-> Id(qargs[i].tuple[1].reg, qargs[i].tuple[1].index),
                                                     q2 |-> Id(qargs[i].tuple[2].reg, qargs[i].tuple[2].index)]]]>>
            ELSE pc \notin {"exit", "done"}

\* C30: the lowering of a single-qubit gate or measurement loses no operand:
\* args holds one id per qubit acted on (n ids for a whole register of size
\* n), and the returns of a Measure are as many as its args.
C30_NoOperandLost ==
    (OneLowered /\ TheStatement.type = "QGate" /\ TheStatement.qsize = 1) =>
        /\ Len(Records) = 1
        /\ Records[1].args = CoveredIds(TheStatement.qargs)
        /\ TheStatement.sym = "Measure" =>
              /\ "returns" \in DOMAIN Records[1]
              /\ Len(Records[1].returns) = Len(Records[1].args)

====
